---- MODULE Spec2Model ----
(***************************************************************************)
(* Model of src/src/scraper.py: the datasheet field-extraction engine.     *)
(*                                                                         *)
(* A Python str is a sequence of chunks.  A chunk is one character         *)
(* ("2", "F", ",", " ", "\n") or a literal word of letters and inner       *)
(* blanks ("Tensile Strength").  Words that start with a letter the        *)
(* patterns single out (F, N, C, M, X in either case) are split after it   *)
(* ("F" \o "ibre Count", "N" \o "umber of loose tubes"), so that          *)
(* "24Fibre" still reads as the token 24F.  Every literal has one spelling *)
(* in chunks, so equality of chunk sequences is equality of the strings.   *)
(* The chunk "+-" is the plus-minus sign and the chunk "deg" the degree     *)
(* sign, each one character of the text.                                   *)
(* Indices kept by the code (col_map, target_index, header_index) keep     *)
(* the code's zero-based values; cell k of a Python list is element k+1    *)
(* of the sequence.                                                        *)
(***************************************************************************)
EXTENDS Integers, Sequences, FiniteSets, TLC

VARIABLES
    \* _get_value_from_table (SpecTable)
    tText, tFcs, tFc, tParam, header_index, col_map, tPc, tResult,
    \* _parse_single_datasheet (SpecDoc)
    dText, dDescription, dFiberCounts, dCommon, dIdx, results, dPc,
    \* parse_datasheets (Spec)
    files, fIdx, all_cables, current_id, taken, bPc, run, previous

tableVars == <<tText, tFcs, tFc, tParam, header_index, col_map, tPc, tResult>>
docVars == <<dText, dDescription, dFiberCounts, dCommon, dIdx, results, dPc>>
batchVars == <<files, fIdx, all_cables, current_id, taken, bPc, run, previous>>
vars == <<tableVars, docVars, batchVars>>

-----------------------------------------------------------------------------
(* Bounds *)

MaxTableLines == 3
MaxBlocks == 2
MaxFiles == 3
MaxRuns == 2

-----------------------------------------------------------------------------
(* Python values *)

\* None (distinct from every str, the empty str included)
None == <<"<None>">>
\* the sentinel "N/A"
NA == <<"N/A">>
\* bool(v) for v a str or None
Truthy(v) == v # None /\ v # <<>>

Digits == {"0", "1", "2", "3", "4", "5", "6", "7", "8", "9"}
IsDigit(c) == c \in Digits
\* \s over the characters of the model
IsSpace(c) == c \in {" ", "\n"}

Min(S) == CHOOSE m \in S : \A n \in S : m <= n
Max(S) == CHOOSE m \in S : \A n \in S : n <= m

\* the chunk at position i, "" outside the str
At(s, i) == IF i \in 1..Len(s) THEN s[i] ELSE ""

\* str.lower(), chunk by chunk: the chunks that change, with their lower case
CasePairs ==
    << <<"F", "f">>, <<"N", "n">>, <<"C", "c">>, <<"M", "m">>, <<"X", "x">>,
       <<"D", "d">>, <<"G", "g">>, <<"O", "o">>, <<"IEC", "iec">>,
       <<"LSZH", "lszh">>, <<"Indoor", "indoor">>, <<"Armoured", "armoured">>,
       <<"Unitube", "unitube">>, <<"ultitube", "ultitube">>,
       <<"Installation", "installation">>, <<"Short Term", "short term">>,
       <<"Red", "red">>, <<"Blue", "blue">>, <<"Operation", "operation">>,
       <<"Technical Specifications", "technical specifications">>,
       <<"ibre Count", "ibre count">>, <<"ibre Type", "ibre type">>,
       <<"ibre Cable", "ibre cable">>, <<"ibre Loose Tube", "ibre loose tube">>,
       <<"Tensile Strength", "tensile strength">>,
       <<"rush Resistance", "rush resistance">>,
       <<"able Diameter", "able diameter">>,
       <<"Tube Colour", "tube colour">>,
       <<"Environmental Performance", "environmental performance">>,
       <<"Loose-tube", "loose-tube">>, <<"N/A", "n/a">> >>
Lower(c) ==
    IF \E k \in 1..Len(CasePairs) : CasePairs[k][1] = c
    THEN CasePairs[CHOOSE k \in 1..Len(CasePairs) : CasePairs[k][1] = c][2]
    ELSE c
\* a lower-case chunk with its first character in upper case
UpFirstPairs ==
    << <<"f", "F">>, <<"n", "N">>, <<"c", "C">>, <<"m", "M">>, <<"x", "X">>,
       <<"d", "D">>, <<"g", "G">>, <<"o", "O">>, <<"iec", "Iec">>,
       <<"lszh", "Lszh">>, <<"indoor", "Indoor">>, <<"armoured", "Armoured">>,
       <<"unitube", "Unitube">>, <<"ultitube", "Ultitube">>,
       <<"installation", "Installation">>, <<"short term", "Short term">>,
       <<"red", "Red">>, <<"blue", "Blue">>, <<"operation", "Operation">>,
       <<"technical specifications", "Technical specifications">>,
       <<"ibre count", "Ibre count">>, <<"ibre type", "Ibre type">>,
       <<"tensile strength", "Tensile strength">>,
       <<"rush resistance", "Rush resistance">>,
       <<"able diameter", "Able diameter">>,
       <<"tube colour", "Tube colour">>,
       <<"environmental performance", "Environmental performance">>,
       <<"loose-tube", "Loose-tube">>, <<"n/a", "N/a">> >>
UpFirst(c) ==
    IF \E k \in 1..Len(UpFirstPairs) : UpFirstPairs[k][1] = c
    THEN UpFirstPairs[CHOOSE k \in 1..Len(UpFirstPairs) : UpFirstPairs[k][1] = c][2]
    ELSE c
\* str.capitalize()
Capitalize(s) == [i \in 1..Len(s) |-> IF i = 1 THEN UpFirst(Lower(s[i])) ELSE Lower(s[i])]

\* s[i:i+len(sub)] == sub, i one-based
MatchAt(s, sub, i) ==
    /\ i >= 1
    /\ i + Len(sub) - 1 <= Len(s)
    /\ \A j \in 1..Len(sub) : s[i + j - 1] = sub[j]
\* sub in s
Contains(s, sub) == \E i \in 1..(Len(s) + 1) : MatchAt(s, sub, i)
\* s.lower()[i:i+len(sub)] == sub.lower(), i one-based; also a literal matched
\* at i under re.IGNORECASE
MatchAtCI(s, sub, i) ==
    /\ i >= 1
    /\ i + Len(sub) - 1 <= Len(s)
    /\ \A j \in 1..Len(sub) : Lower(s[i + j - 1]) = Lower(sub[j])
\* sub.lower() in s.lower()
ContainsCI(s, sub) == \E i \in 1..(Len(s) + 1) : MatchAtCI(s, sub, i)

\* end (exclusive) of the maximal run of \s starting at i
SpaceRunEnd(s, i) ==
    CHOOSE j \in i..(Len(s) + 1) :
        /\ \A k \in i..(j - 1) : IsSpace(s[k])
        /\ j = Len(s) + 1 \/ ~IsSpace(s[j])
\* end (exclusive) of the maximal run of \d starting at i
DigitRunEnd(s, i) ==
    CHOOSE j \in i..(Len(s) + 1) :
        /\ \A k \in i..(j - 1) : IsDigit(s[k])
        /\ j = Len(s) + 1 \/ ~IsDigit(s[j])

\* str.strip()
Strip(s) ==
    IF \A i \in 1..Len(s) : IsSpace(s[i]) THEN <<>>
    ELSE LET a == CHOOSE i \in 1..Len(s) : ~IsSpace(s[i]) /\ \A k \in 1..(i - 1) : IsSpace(s[k])
             b == CHOOSE i \in 1..Len(s) : ~IsSpace(s[i]) /\ \A k \in (i + 1)..Len(s) : IsSpace(s[k])
         IN SubSeq(s, a, b)

\* str.replace(c, '') for a single character c
Remove(s, c) == SelectSeq(s, LAMBDA ch : ch # c)
\* str.replace(c, d) for single characters
ReplaceChar(s, c, d) == [i \in 1..Len(s) |-> IF s[i] = c THEN d ELSE s[i]]

\* str.split(c) for a single character c
RECURSIVE SplitOn(_, _)
SplitOn(s, c) ==
    IF \A i \in 1..Len(s) : s[i] # c THEN <<s>>
    ELSE LET i == CHOOSE k \in 1..Len(s) : s[k] = c /\ \A m \in 1..(k - 1) : s[m] # c
         IN <<SubSeq(s, 1, i - 1)>> \o SplitOn(SubSeq(s, i + 1, Len(s)), c)

\* sep.join(parts)
RECURSIVE Join(_, _)
Join(parts, sep) ==
    IF Len(parts) = 0 THEN <<>>
    ELSE IF Len(parts) = 1 THEN parts[1]
    ELSE parts[1] \o sep \o Join(Tail(parts), sep)

\* length of the delimiter ,,|,|\s{2,} matched at i, 0 when none matches there
TableDelimLen(s, i) ==
    IF s[i] = "," THEN (IF i < Len(s) /\ s[i + 1] = "," THEN 2 ELSE 1)
    ELSE IF IsSpace(s[i]) /\ SpaceRunEnd(s, i) - i >= 2 THEN SpaceRunEnd(s, i) - i
    ELSE 0
\* re.split(r',,|,|\s{2,}', s)
RECURSIVE SplitCells(_)
SplitCells(s) ==
    IF \A i \in 1..Len(s) : TableDelimLen(s, i) = 0 THEN <<s>>
    ELSE LET i == CHOOSE k \in 1..Len(s) :
                      TableDelimLen(s, k) > 0 /\ \A m \in 1..(k - 1) : TableDelimLen(s, m) = 0
         IN <<SubSeq(s, 1, i - 1)>> \o SplitCells(SubSeq(s, i + TableDelimLen(s, i), Len(s)))

\* int(s) for a str of digits
DigitValue(c) ==
    CASE c = "0" -> 0 [] c = "1" -> 1 [] c = "2" -> 2 [] c = "3" -> 3 [] c = "4" -> 4
      [] c = "5" -> 5 [] c = "6" -> 6 [] c = "7" -> 7 [] c = "8" -> 8 [] c = "9" -> 9
RECURSIVE ToInt(_)
ToInt(s) ==
    IF Len(s) = 0 THEN 0
    ELSE 10 * ToInt(SubSeq(s, 1, Len(s) - 1)) + DigitValue(s[Len(s)])

\* the literals of the table locator
FibreCount == <<"F", "ibre Count">>
TensileStrength == <<"Tensile Strength">>
CrushResistance == <<"C", "rush Resistance">>
CableDiameter == <<"C", "able Diameter">>

-----------------------------------------------------------------------------
(* _get_value_from_table *)

\* fc + "F"
Label(fc) == fc \o <<"F">>

\* the condition of line 19
IsHeaderLine(line, fiber_counts) ==
    /\ Contains(line, FibreCount)
    /\ \E k \in 1..Len(fiber_counts) : Contains(line, Label(fiber_counts[k]))

\* header_index after the loop of lines 18-26 (zero-based, -1 when no line qualifies)
HeaderIndex(lines, fiber_counts) ==
    IF \A i \in 1..Len(lines) : ~IsHeaderLine(lines[i], fiber_counts) THEN -1
    ELSE (CHOOSE i \in 1..Len(lines) :
              /\ IsHeaderLine(lines[i], fiber_counts)
              /\ \A k \in 1..(i - 1) : ~IsHeaderLine(lines[k], fiber_counts)) - 1

\* line 24: the membership test of a header cell
LabelInPart(part, fc) == Contains(part, Label(fc))

\* col_map built by lines 21-25 from the header line: the last cell that
\* holds the label wins, because later assignments overwrite earlier ones
ColMap(line, fiber_counts) ==
    LET header_parts == SplitCells(Strip(line))
        Hits(fc) == {idx \in 0..(Len(header_parts) - 1) : LabelInPart(header_parts[idx + 1], fc)}
        mapped == {fiber_counts[k] : k \in 1..Len(fiber_counts)}
    IN [fc \in {f \in mapped : Hits(f) # {}} |-> Max(Hits(fc))]

\* value.replace('$', '').replace('"', '').strip()
CleanCell(s) == Strip(Remove(Remove(s, "$"), "\""))

\* line 36
TargetIndexMutant(fc_col, parameter, value_parts) == fc_col
TargetIndex(fc_col, parameter, value_parts) ==
    IF ContainsCI(value_parts[1], parameter) THEN fc_col ELSE fc_col - 1

\* line 32
LineMatches(line, parameter) == ContainsCI(line, parameter)

\* lines 33-43 on one matching line: the value returned there, None when the
\* line returns nothing and the loop goes on to the next line
LineValue(line, cmap, current_fc, parameter) ==
    LET value_parts == SplitCells(Strip(line))
        n == Len(value_parts)
        target_index == TargetIndex(cmap[current_fc], parameter, value_parts)
        value == CleanCell(value_parts[target_index + 1])
    IN IF current_fc \in DOMAIN cmap /\ 0 <= target_index /\ target_index < n
       THEN IF value = <<>> /\ target_index > 0
            THEN CleanCell(value_parts[target_index])
            ELSE value
       ELSE IF n > 1 THEN CleanCell(value_parts[2])
       ELSE None

\* lines 30-44: the first line after the header that returns a value
RowScan(lines, hidx, cmap, current_fc, parameter) ==
    LET Returns(i) == /\ LineMatches(lines[i], parameter)
                      /\ LineValue(lines[i], cmap, current_fc, parameter) # None
        from == hidx + 2
    IN IF \A i \in from..Len(lines) : ~Returns(i) THEN None
       ELSE LineValue(lines[CHOOSE i \in from..Len(lines) :
                                Returns(i) /\ \A k \in from..(i - 1) : ~Returns(k)],
                      cmap, current_fc, parameter)

\* _get_value_from_table as a function of its arguments
GetValueFromTable(text, fiber_counts, current_fc, parameter) ==
    LET lines == SplitOn(text, "\n")
        hidx == HeaderIndex(lines, fiber_counts)
    IN IF hidx = -1 THEN None
       ELSE RowScan(lines, hidx, ColMap(lines[hidx + 1], fiber_counts), current_fc, parameter)

-----------------------------------------------------------------------------
(* Inputs of the table locator *)

\* "Fibre Count ,, 24F ,, 48F"
HeaderA == FibreCount \o <<" ", ",", ",", " ", "2", "4", "F", " ", ",", ",", " ", "4", "8", "F">>
\* "Fibre Count,,6F,,96F"
HeaderB == FibreCount \o <<",", ",", "6", "F", ",", ",", "9", "6", "F">>
\* "Tensile Strength,,150 N,,200 N"
RowA == TensileStrength \o <<",", ",", "1", "5", "0", " ", "N", ",", ",", "2", "0", "0", " ", "N">>
\* "tensile strength"
RowB == <<"tensile strength">>
\* "1,,,,\"2 N\",Tensile Strength"
RowC == <<"1", ",", ",", ",", ",", "\"", "2", " ", "N", "\"", ",">> \o TensileStrength
\* "Tensile Strength  $5 N"
RowD == TensileStrength \o <<" ", " ", "$", "5", " ", "N">>
\* "Crush Resistance,7 N,$,9 N"
RowE == CrushResistance \o <<",", "7", " ", "N", ",", "$", ",", "9", " ", "N">>

\* "x,5 N,Tensile Strength"
RowF == <<"x", ",", "5", " ", "N", ",">> \o TensileStrength

TableLines == {HeaderA, HeaderB, RowA, RowB, RowC, RowD, RowE, RowF}

\* the texts of at most n lines over a set of lines
TextsOf(pool, n) ==
    {Join(ls, <<"\n">>) : ls \in UNION {[1..k -> pool] : k \in 1..n}}

TableFcs == {<<"24", "48">>, <<"6", "96">>, <<"6", "24", "96">>}
\* a fiber count token as a str
Token(t) ==
    CASE t = "24" -> <<"2", "4">> [] t = "48" -> <<"4", "8">>
      [] t = "6" -> <<"6">> [] t = "96" -> <<"9", "6">>
TableParams == {TensileStrength, CrushResistance}

-----------------------------------------------------------------------------
(* SpecTable: one call of _get_value_from_table *)

InitTable ==
    /\ tText \in TextsOf(TableLines, MaxTableLines)
    /\ tFcs \in {[i \in 1..Len(f) |-> Token(f[i])] : f \in TableFcs}
    /\ tFc \in {tFcs[i] : i \in 1..Len(tFcs)}
    /\ tParam \in TableParams
    /\ header_index = -1
    /\ col_map = <<>>
    /\ tPc = "header"
    /\ tResult = None
    \* the variables of the other calls stay at rest
    /\ dText = <<>> /\ dDescription = <<>> /\ dFiberCounts = <<>>
    /\ dCommon = <<>> /\ dIdx = 1 /\ results = <<>> /\ dPc = "idle"
    /\ files = <<>> /\ fIdx = 1 /\ all_cables = <<>> /\ current_id = 0
    /\ taken = <<>> /\ bPc = "idle" /\ run = 1 /\ previous = <<>>

\* lines 14-26: the header loop
LocateHeader ==
    /\ tPc = "header"
    /\ header_index' = HeaderIndex(SplitOn(tText, "\n"), tFcs)
    /\ col_map' = IF header_index' = -1 THEN <<>>
                  ELSE ColMap(SplitOn(tText, "\n")[header_index' + 1], tFcs)
    /\ tPc' = "rows"
    /\ UNCHANGED <<tText, tFcs, tFc, tParam, tResult>>

\* line 28
NoHeader ==
    /\ tPc = "rows"
    /\ header_index = -1
    /\ tResult' = None
    /\ tPc' = "done"
    /\ UNCHANGED <<tText, tFcs, tFc, tParam, header_index, col_map>>

\* lines 30-44
ScanRows ==
    /\ tPc = "rows"
    /\ header_index # -1
    /\ tResult' = RowScan(SplitOn(tText, "\n"), header_index, col_map, tFc, tParam)
    /\ tPc' = "done"
    /\ UNCHANGED <<tText, tFcs, tFc, tParam, header_index, col_map>>

NextTable ==
    \/ (LocateHeader /\ UNCHANGED <<docVars, batchVars>>)
    \/ (NoHeader /\ UNCHANGED <<docVars, batchVars>>)
    \/ (ScanRows /\ UNCHANGED <<docVars, batchVars>>)

SpecTable == InitTable /\ [][NextTable]_vars

-----------------------------------------------------------------------------
(* Helpers of the field patterners *)

\* the elements of a finite set of integers in ascending order
RECURSIVE Ascending(_)
Ascending(S) == IF S = {} THEN <<>> ELSE <<Min(S)>> \o Ascending(S \ {Min(S)})

\* the positions where the literal occurs, regardless of case
OccurrencesCI(s, sub) == {i \in 1..Len(s) : MatchAtCI(s, sub, i)}

\* position of the first "\n" at or after i, Len(s)+1 when there is none
LineEnd(s, i) ==
    Min({p \in i..Len(s) : s[p] = "\n"} \cup {Len(s) + 1})

\* re.sub(r'\s+', ' ', s)
RECURSIVE CollapseSpaces(_)
CollapseSpaces(s) ==
    IF Len(s) = 0 THEN <<>>
    ELSE IF IsSpace(s[1])
         THEN <<" ">> \o CollapseSpaces(SubSeq(s, SpaceRunEnd(s, 1), Len(s)))
         ELSE <<s[1]>> \o CollapseSpaces(Tail(s))

\* s.replace(sub, '') for a non-empty sub
RECURSIVE RemoveSub(_, _)
RemoveSub(s, sub) ==
    IF Len(s) = 0 THEN <<>>
    ELSE IF MatchAt(s, sub, 1)
         THEN RemoveSub(SubSeq(s, Len(sub) + 1, Len(s)), sub)
         ELSE <<s[1]>> \o RemoveSub(Tail(s), sub)

\* the chunks without an ASCII letter
NoLetter == Digits \cup {",", " ", "\n", "$", "\"", "/", ".", ":", "*", "+-", "deg", "-", ""}
\* the chunk matches [a-zA-Z] at its first character
HasLetter(c) == c \notin NoLetter
\* the chunk is made of characters of [\w\s,]
InColourClass(c) ==
    \/ HasLetter(c) /\ c \notin {"N/A", "loose-tube", "Loose-tube"}
    \/ IsDigit(c)
    \/ c \in {",", " ", "\n"}
\* the chunk is one character of [/0-9\s.xcm] under re.IGNORECASE
InCrushClass(c) == IsDigit(c) \/ c \in {"/", " ", "\n", ".", "x", "X", "c", "C", "m", "M"}

\* the literals of the field patterners
TechnicalSpecifications == <<"Technical Specifications">>
NumberOfLooseTubes == <<"N", "umber of loose tubes">>
FibreType == <<"F", "ibre Type">>
EnvironmentalPerformance == <<"Environmental Performance">>
IECMarker == <<"IEC", "-", "6", "0", "7", "9", "4", "-", "1", "-", "2", "2", "-", "F", "1">>
TubeColour == <<"Tube Colour">>
Unitube == <<"Unitube">>
Multitube == <<"M", "ultitube">>

-----------------------------------------------------------------------------
(* _get_cable_description *)

\* group(1) of r"Technical Specifications\s*\n(.*?)\s*\n" for the heading at
\* k, None when the pattern does not match there.  \s*\n is greedy, so the
\* group starts after the last "\n" of the blanks that follow the heading;
\* (.*?) is lazy, so it ends where blanks holding a "\n" begin.  When nothing
\* follows the last "\n", the engine backtracks to an earlier "\n" and the
\* group is empty.
DescriptionGroup(text, k) ==
    LET e == k + Len(TechnicalSpecifications)
        w == SpaceRunEnd(text, e)
        nls == {n \in e..(w - 1) : text[n] = "\n"}
        g == Max(nls) + 1
        EndsGroup(p) == \E m \in p..(SpaceRunEnd(text, p) - 1) : text[m] = "\n"
        ends == {p \in g..Len(text) : EndsGroup(p)}
    IN IF nls = {} THEN None
       ELSE IF ends # {} THEN SubSeq(text, g, Min(ends) - 1)
       ELSE IF Cardinality(nls) >= 2 THEN <<>>
       ELSE None

GetCableDescription(text) ==
    LET hits == {k \in OccurrencesCI(text, TechnicalSpecifications) : DescriptionGroup(text, k) # None}
    IN IF hits = {} THEN NA
       ELSE Strip(CollapseSpaces(DescriptionGroup(text, Min(hits))))

-----------------------------------------------------------------------------
(* Variant discovery: lines 124-126 of _parse_single_datasheet *)

\* re.split(r'[a-zA-Z]', s)[0]
BeforeFirstLetter(s) ==
    SubSeq(s, 1, Min({i \in 1..Len(s) : HasLetter(s[i])} \cup {Len(s) + 1}) - 1)

\* re.findall(r'\d+', s)
RECURSIVE FindAllDigits(_)
FindAllDigits(s) ==
    IF Len(s) = 0 THEN <<>>
    ELSE IF IsDigit(s[1])
         THEN <<SubSeq(s, 1, DigitRunEnd(s, 1) - 1)>>
                  \o FindAllDigits(SubSeq(s, DigitRunEnd(s, 1), Len(s)))
         ELSE FindAllDigits(Tail(s))

\* re.findall(r'(\d+)F', s)
RECURSIVE FindAllDigitsF(_)
FindAllDigitsF(s) ==
    IF Len(s) = 0 THEN <<>>
    ELSE IF IsDigit(s[1])
         THEN IF At(s, DigitRunEnd(s, 1)) = "F"
              THEN <<SubSeq(s, 1, DigitRunEnd(s, 1) - 1)>>
                       \o FindAllDigitsF(SubSeq(s, DigitRunEnd(s, 1) + 1, Len(s)))
              ELSE FindAllDigitsF(SubSeq(s, DigitRunEnd(s, 1), Len(s)))
         ELSE FindAllDigitsF(Tail(s))

\* title_fcs, line 124
TitleFcsMutant(base_description) == <<>>
TitleFcs(base_description) == FindAllDigits(BeforeFirstLetter(base_description))
\* text_fcs, line 125
TextFcs(text) == FindAllDigitsF(text)

\* list(set(...)): the iteration order of a set of str follows the hashes of
\* its elements, which CPython salts anew in every process; any order of the
\* elements can come out
SetOrders(S) ==
    {p \in [1..Cardinality(S) -> S] : \A x \in S : \E i \in 1..Cardinality(S) : p[i] = x}

\* sorted(xs, key=int): stable, so equal keys keep the order they come in
RECURSIVE SortedByInt(_)
SortedByInt(xs) ==
    IF Len(xs) = 0 THEN <<>>
    ELSE LET m == Min({ToInt(xs[i]) : i \in 1..Len(xs)})
         IN SelectSeq(xs, LAMBDA x : ToInt(x) = m)
                \o SortedByInt(SelectSeq(xs, LAMBDA x : ToInt(x) # m))

\* fiber_counts, line 126, for the order in which the set is iterated
FiberCounts(order) == SortedByInt(order)

-----------------------------------------------------------------------------
(* _get_generic_value with the pattern lists of lines 137-138 *)

\* end (inclusive) of \d+\s*N matched at p under re.IGNORECASE, 0 when it
\* does not match there
NumberNEnd(text, p) ==
    LET sp == SpaceRunEnd(text, DigitRunEnd(text, p))
    IN IF IsDigit(At(text, p)) /\ Lower(At(text, sp)) = "n" THEN sp ELSE 0

\* end (exclusive) of \s*[:\s]* from p
ColonRunEnd(text, p) ==
    CHOOSE j \in p..(Len(text) + 1) :
        /\ \A k \in p..(j - 1) : IsSpace(text[k]) \/ text[k] = ":"
        /\ ~(IsSpace(At(text, j)) \/ At(text, j) = ":")

\* parameter + r"[\s\S]*?(?:Installation|Short Term)\s*[:\s]*(\d+\s*N)"
KeywordNumber(text, parameter) ==
    LET occ == OccurrencesCI(text, parameter)
        e == Min(occ) + Len(parameter)
        AfterKeyword(m) ==
            IF MatchAtCI(text, <<"Installation">>, m) THEN m + 1
            ELSE IF MatchAtCI(text, <<"Short Term">>, m) THEN m + 1
            ELSE 0
        Start(m) == ColonRunEnd(text, AfterKeyword(m))
        ms == {m \in e..Len(text) : AfterKeyword(m) # 0 /\ NumberNEnd(text, Start(m)) # 0}
    IN IF occ = {} \/ ms = {} THEN None
       ELSE SubSeq(text, Start(Min(ms)), NumberNEnd(text, Start(Min(ms))))

\* parameter + r"[\s\S]*?(\d+\s*N)"
FirstNumber(text, parameter) ==
    LET occ == OccurrencesCI(text, parameter)
        e == Min(occ) + Len(parameter)
        ps == {q \in e..Len(text) : NumberNEnd(text, q) # 0}
    IN IF occ = {} \/ ps = {} THEN None
       ELSE SubSeq(text, Min(ps), NumberNEnd(text, Min(ps)))

\* end (exclusive) of the run of [/0-9\s.xcm] from p
CrushRunEnd(text, p) ==
    CHOOSE j \in p..(Len(text) + 1) :
        /\ \A k \in p..(j - 1) : InCrushClass(text[k])
        /\ ~InCrushClass(At(text, j))

\* parameter + r"[\s\S]*?(\d+\s*N[/0-9\s.xcm]+)"
NumberWithUnit(text, parameter) ==
    LET occ == OccurrencesCI(text, parameter)
        e == Min(occ) + Len(parameter)
        ps == {q \in e..Len(text) :
                  NumberNEnd(text, q) # 0 /\ InCrushClass(At(text, NumberNEnd(text, q) + 1))}
    IN IF occ = {} \/ ps = {} THEN None
       ELSE SubSeq(text, Min(ps), CrushRunEnd(text, NumberNEnd(text, Min(ps)) + 1) - 1)

\* _get_generic_value: the first pattern of the list that matches, else "N/A"
GenericValue(first, second) ==
    IF first # None THEN Strip(first)
    ELSE IF second # None THEN Strip(second)
    ELSE NA
\* _get_generic_value(text, 'Tensile Strength', tensile_patterns)
GenericTensile(text) ==
    GenericValue(KeywordNumber(text, TensileStrength), FirstNumber(text, TensileStrength))
\* _get_generic_value(text, 'Crush Resistance', crush_patterns)
GenericCrush(text) ==
    GenericValue(NumberWithUnit(text, CrushResistance), FirstNumber(text, CrushResistance))

-----------------------------------------------------------------------------
(* _get_tube_type *)

\* group(1) of r"Number of loose tubes\s*.*?(\d+)" for the literal at k: the
\* first digits on the line where the blanks after the literal end
LooseTubesGroup(text, k) ==
    LET q == SpaceRunEnd(text, k + Len(NumberOfLooseTubes))
        ds == {d \in q..(LineEnd(text, q) - 1) : IsDigit(text[d])}
    IN IF ds = {} THEN None
       ELSE SubSeq(text, Min(ds), DigitRunEnd(text, Min(ds)) - 1)

GetTubeType(text) ==
    LET hits == {k \in OccurrencesCI(text, NumberOfLooseTubes) : LooseTubesGroup(text, k) # None}
    IN IF Contains(text, Unitube) THEN Unitube
       ELSE IF Contains(text, Multitube) THEN Multitube
       ELSE IF hits # {}
            THEN (IF ToInt(LooseTubesGroup(text, Min(hits))) = 1 THEN Unitube ELSE Multitube)
       ELSE NA

-----------------------------------------------------------------------------
(* _get_raw_fiber_type *)

\* group(1) of r"Fibre Type\s*\"?([^\n\"]*G\.65\d[^\n\"]*|OM\d)" for the
\* literal at k
FibreTypeGroup(text, k) ==
    LET w == SpaceRunEnd(text, k + Len(FibreType))
        st == IF At(text, w) = "\"" THEN w + 1 ELSE w
        segEnd == Min({q \in st..Len(text) : text[q] \in {"\n", "\""}} \cup {Len(text) + 1})
        IsG65(q) == MatchAtCI(text, <<"G", ".", "6", "5">>, q) /\ q + 4 < segEnd /\ IsDigit(text[q + 4])
    IN IF \E q \in st..(segEnd - 1) : IsG65(q) THEN SubSeq(text, st, segEnd - 1)
       ELSE IF MatchAtCI(text, <<"O", "M">>, st) /\ IsDigit(At(text, st + 2))
            THEN SubSeq(text, st, st + 2)
       ELSE None

GetRawFiberType(text) ==
    LET hits == {k \in OccurrencesCI(text, FibreType) : FibreTypeGroup(text, k) # None}
    IN IF hits = {} THEN NA
       ELSE Remove(Remove(Strip(FibreTypeGroup(text, Min(hits))), "$"), "\"")

-----------------------------------------------------------------------------
(* _get_environmental_performance *)

\* group(1) of r"Environmental Performance\s*([\s\S]*?)IEC-60794-1-22-F1"
EnvironmentalBlock(text) ==
    LET occ == {k \in 1..Len(text) : MatchAt(text, EnvironmentalPerformance, k)}
        q == SpaceRunEnd(text, Min(occ) + Len(EnvironmentalPerformance))
        ms == {m \in q..Len(text) : MatchAt(text, IECMarker, m)}
    IN IF occ = {} \/ ms = {} THEN None
       ELSE SubSeq(text, q, Min(ms) - 1)

\* lines 75-87: the dict keeps a key at the place of its first insertion and
\* the value of its last one
ConditionsString(block) ==
    LET raw == SplitOn(block, "\n")
        lines == SelectSeq([i \in 1..Len(raw) |-> Strip(raw[i])], LAMBDA l : l # <<>>)
        temps == {i \in 1..(Len(lines) - 1) : Contains(lines[i], <<"deg", "C">>)}
        Key(i) == Capitalize(lines[i + 1])
        firsts == Ascending({i \in temps : \A j \in temps : j < i => Key(j) # Key(i)})
        Value(i) == lines[Max({j \in temps : Key(j) = Key(i)})]
    IN Join([n \in 1..Len(firsts) |-> Key(firsts[n]) \o <<" ">> \o Value(firsts[n])], <<" ", " ">>)

GetEnvironmentalPerformance(text) ==
    IF EnvironmentalBlock(text) = None THEN NA
    ELSE ConditionsString(EnvironmentalBlock(text))

-----------------------------------------------------------------------------
(* _get_tube_colors *)

\* end (exclusive) of the run of [\w\s,] from g
ColourRunEnd(text, g) ==
    CHOOSE j \in g..(Len(text) + 1) :
        /\ \A k \in g..(j - 1) : InColourClass(text[k])
        /\ ~InColourClass(At(text, j))

\* ([\w\s,]+)\n with the group starting at g: the greedy group ends before the
\* last "\n" of the run
ColourGroupAt(text, g) ==
    LET nls == {n \in (g + 1)..(ColourRunEnd(text, g) - 1) : text[n] = "\n"}
    IN IF nls = {} THEN None ELSE SubSeq(text, g, Max(nls) - 1)

\* \s*([\w\s,]+)\n from a: the greedy \s* gives blanks back one at a time
ColourGroupFrom(text, a) ==
    LET gs == {g \in a..SpaceRunEnd(text, a) : ColourGroupAt(text, g) # None}
    IN IF gs = {} THEN None ELSE ColourGroupAt(text, Max(gs))

\* group(1) of r"Tube Colour\s*.*\n\s*([\w\s,]+)\n" for the literal at k:
\* \s* takes the blanks up to c, .* the rest of that line
TubeColourGroup(text, k) ==
    LET e == k + Len(TubeColour)
        After(c) == LineEnd(text, c) + 1
        cs == {c \in e..SpaceRunEnd(text, e) :
                  LineEnd(text, c) <= Len(text) /\ ColourGroupFrom(text, After(c)) # None}
    IN IF cs = {} THEN None ELSE ColourGroupFrom(text, After(Max(cs)))

\* length of the delimiter \s{2,}|, matched at i, 0 when none matches there
ColourDelimLen(s, i) ==
    IF IsSpace(s[i]) /\ SpaceRunEnd(s, i) - i >= 2 THEN SpaceRunEnd(s, i) - i
    ELSE IF s[i] = "," THEN 1
    ELSE 0
\* re.split(r'\s{2,}|,', s)
RECURSIVE SplitColours(_)
SplitColours(s) ==
    IF \A i \in 1..Len(s) : ColourDelimLen(s, i) = 0 THEN <<s>>
    ELSE LET i == CHOOSE k \in 1..Len(s) :
                      ColourDelimLen(s, k) > 0 /\ \A m \in 1..(k - 1) : ColourDelimLen(s, m) = 0
         IN <<SubSeq(s, 1, i - 1)>> \o SplitColours(SubSeq(s, i + ColourDelimLen(s, i), Len(s)))

GetTubeColors(text) ==
    LET hits == {k \in OccurrencesCI(text, TubeColour) : TubeColourGroup(text, k) # None}
        parts == SelectSeq(SplitColours(Strip(TubeColourGroup(text, Min(hits)))), LAMBDA c : c # <<>>)
    IN IF hits = {} THEN NA
       ELSE Join([i \in 1..Len(parts) |-> Strip(parts[i])], <<",", " ">>)

-----------------------------------------------------------------------------
(* The diameter pattern of line 145 *)

\* end (exclusive) of \d+\.\d+ matched at p, 0 when it does not match there
DecimalEnd(text, p) ==
    LET d == DigitRunEnd(text, p)
    IN IF IsDigit(At(text, p)) /\ At(text, d) = "." /\ IsDigit(At(text, d + 1))
       THEN DigitRunEnd(text, d + 1) ELSE 0

\* end (inclusive) of \d+\.\d+\s*(+-)\s*\d+\.\d+\s*mm matched at p, 0 when it
\* does not match there
ToleranceEnd(text, p) ==
    LET pm == SpaceRunEnd(text, DecimalEnd(text, p))
        second == SpaceRunEnd(text, pm + 1)
        mm == SpaceRunEnd(text, DecimalEnd(text, second))
    IN IF /\ DecimalEnd(text, p) # 0
          /\ At(text, pm) = "+-"
          /\ DecimalEnd(text, second) # 0
          /\ Lower(At(text, mm)) = "m"
          /\ Lower(At(text, mm + 1)) = "m"
       THEN mm + 1 ELSE 0

\* group(1) of r"Cable Diameter\s*.*?(\d+\.\d+\s*(+-)\s*\d+\.\d+\s*mm)" for the
\* literal at k
DiameterGroup(text, k) ==
    LET q == SpaceRunEnd(text, k + Len(CableDiameter))
        ps == {d \in q..(LineEnd(text, q) - 1) : ToleranceEnd(text, d) # 0}
    IN IF ps = {} THEN None
       ELSE SubSeq(text, Min(ps), ToleranceEnd(text, Min(ps)))

\* lines 145-146
DiameterPattern(text) ==
    LET hits == {k \in OccurrencesCI(text, CableDiameter) : DiameterGroup(text, k) # None}
    IN IF hits = {} THEN None ELSE DiameterGroup(text, Min(hits))

-----------------------------------------------------------------------------
(* _build_descriptive_strings *)

\* typeofCable_str, lines 99-111
TypeOfCable(text) ==
    LET tube_type == GetTubeType(text)
        keywords ==
            (IF Contains(text, <<"Indoor">>) THEN << <<"Indoor">> >> ELSE <<>>)
            \o (IF Contains(text, <<"LSZH">>) THEN << <<"LSZH">> >> ELSE <<>>)
            \o (IF Contains(text, <<"Armoured">>) THEN << <<"armoured">> >> ELSE <<>>)
            \o (IF tube_type = Unitube THEN << <<"unitube">> >>
                ELSE IF tube_type = Multitube THEN << <<"loose-tube">> >>
                ELSE <<>>)
            \o << <<"c", "able">> >>
    IN Capitalize(Join(keywords, <<" ">>))

\* cableDescription_str, lines 114-115
CableDescription(text, base_description, fc) ==
    LET desc_suffix == IF \E type_of_cable \in {TypeOfCable(text)} :
                              ContainsCI(type_of_cable, <<"loose-tube">>)
                       THEN <<"F", "ibre Loose Tube">>
                       ELSE <<"F", "ibre Cable">>
    IN Label(fc) \o <<" ">> \o Strip(RemoveSub(base_description, Label(fc)))
           \o <<" ">> \o desc_suffix

-----------------------------------------------------------------------------
(* _parse_single_datasheet *)

\* a or b
OrElse(a, b) == IF Truthy(a) THEN a ELSE b

\* set(title_fcs + text_fcs), line 126
TokenSet(base_description, text) ==
    LET all == TitleFcs(base_description) \o TextFcs(text)
    IN {all[i] : i \in 1..Len(all)}

\* lines 131-134: the values computed once for the document
CommonValues(text) ==
    [raw_fiber_type |-> GetRawFiberType(text),
     env_conditions |-> GetEnvironmentalPerformance(text),
     tube_colors |-> GetTubeColors(text),
     tube_type_str |-> GetTubeType(text)]

\* lines 142-146 and 159
Diameter(text, fiber_counts, fc) ==
    LET from_table == GetValueFromTable(text, fiber_counts, fc, CableDiameter)
        diameter == IF ~Truthy(from_table) /\ DiameterPattern(text) # None
                    THEN DiameterPattern(text)
                    ELSE from_table
    IN IF Truthy(diameter) THEN ReplaceChar(diameter, "*", "+-") ELSE NA

\* lines 137-166: the dict built for one fiber count
MakeRecord(filename, text, base_description, fiber_counts, fc, common) ==
    LET tensile == OrElse(GetValueFromTable(text, fiber_counts, fc, TensileStrength),
                          GenericTensile(text))
        crush == OrElse(GetValueFromTable(text, fiber_counts, fc, CrushResistance),
                        GenericCrush(text))
    IN [cableID |-> 0,
        cableDescription |-> CableDescription(text, base_description, fc),
        fiberCount |-> Label(fc),
        typeofCable |-> TypeOfCable(text),
        span |-> NA,
        tube |-> common.tube_type_str,
        tubeColorCoding |-> common.tube_colors,
        fiberType |-> common.raw_fiber_type,
        diameter |-> Diameter(text, fiber_counts, fc),
        tensile |-> tensile,
        nescCondition |-> common.env_conditions,
        crush |-> IF Truthy(crush) THEN Remove(crush, "$") ELSE NA,
        blowingLength |-> NA,
        datasheetURL |-> filename,
        isActive |-> <<"Y">>]

\* lines 135-167: results after the first n iterations of the loop over
\* fiber_counts, one dict appended per iteration
RECURSIVE Records(_, _, _, _, _, _)
Records(filename, text, base_description, fiber_counts, common, n) ==
    IF n = 0 THEN <<>>
    ELSE Append(Records(filename, text, base_description, fiber_counts, common, n - 1),
                MakeRecord(filename, text, base_description, fiber_counts,
                           fiber_counts[n], common))

\* _parse_single_datasheet for a str, given the order in which the set of
\* tokens is iterated
ParseSingleDatasheet(filename, text, order) ==
    Records(filename, text, GetCableDescription(text), FiberCounts(order),
            CommonValues(text), Len(FiberCounts(order)))

-----------------------------------------------------------------------------
(* Inputs of the datasheet parser *)

\* "Technical Specifications\n24/48F Indoor LSZH Cable"
BlockTitle == TechnicalSpecifications
    \o <<"\n", "2", "4", "/", "4", "8", "F", " ", "Indoor", " ", "LSZH", " ", "C", "able">>
\* "x 96F"
BlockBody == <<"x", " ", "9", "6", "F">>
\* "024F Unitube"
BlockZero == <<"0", "2", "4", "F", " ", "Unitube">>
\* "Armoured x"
BlockPlain == <<"Armoured", " ", "x">>
\* "Environmental Performance 5(deg)C\noperation IEC-60794-1-22-F1"
BlockEnv == EnvironmentalPerformance \o <<" ", "5", "deg", "C", "\n", "operation", " ">> \o IECMarker
\* "24F Environmental Performance IEC-60794-1-22-F1"
BlockEnvEmpty == <<"2", "4", "F", " ">> \o EnvironmentalPerformance \o <<" ">> \o IECMarker
\* "Fibre Count,,24F,,48F\nTensile Strength,1 N,2 N"
BlockTable == FibreCount \o <<",", ",", "2", "4", "F", ",", ",", "4", "8", "F", "\n">>
    \o TensileStrength \o <<",", "1", " ", "N", ",", "2", " ", "N">>
\* "Cable Diameter 1.5 (+-) 0.2 mm"
BlockDiameter == CableDiameter
    \o <<" ", "1", ".", "5", " ", "+-", " ", "0", ".", "2", " ", "m", "m">>
\* "Tube Colour\nRed, Blue"
BlockColour == TubeColour \o <<"\n", "Red", ",", " ", "Blue">>
\* "Fibre Type G.652D"
BlockFibre == FibreType \o <<" ", "G", ".", "6", "5", "2", "D">>
\* "Number of loose tubes 1"
BlockTubes == NumberOfLooseTubes \o <<" ", "1">>
\* "Crush Resistance 20 N/cm"
BlockCrush == CrushResistance \o <<" ", "2", "0", " ", "N", "/", "c", "m">>
\* "Tensile Strength Installation: 9 N"
BlockTensile == TensileStrength \o <<" ", "Installation", ":", " ", "9", " ", "N">>

DocBlocks ==
    {BlockTitle, BlockBody, BlockZero, BlockPlain, BlockEnv, BlockEnvEmpty, BlockTable,
     BlockDiameter, BlockColour, BlockFibre, BlockTubes, BlockCrush, BlockTensile}

\* the name the document is parsed under
DocName == <<"a.pdf">>

-----------------------------------------------------------------------------
(* SpecDoc: one call of _parse_single_datasheet on a str *)

InitDoc ==
    /\ dText \in TextsOf(DocBlocks, MaxBlocks)
    /\ dDescription = <<>>
    /\ dFiberCounts = <<>>
    /\ dCommon = <<>>
    /\ dIdx = 1
    /\ results = <<>>
    /\ dPc = "start"
    \* the variables of the other calls stay at rest
    /\ tText = <<>> /\ tFcs = <<>> /\ tFc = <<>> /\ tParam = <<>>
    /\ header_index = -1 /\ col_map = <<>> /\ tPc = "idle" /\ tResult = None
    /\ files = <<>> /\ fIdx = 1 /\ all_cables = <<>> /\ current_id = 0
    /\ taken = <<>> /\ bPc = "idle" /\ run = 1 /\ previous = <<>>

\* lines 121-126
DiscoverVariants ==
    /\ dPc = "start"
    /\ dDescription' = GetCableDescription(dText)
    /\ \E order \in SetOrders(TokenSet(dDescription', dText)) :
           dFiberCounts' = FiberCounts(order)
    /\ dPc' = "discovered"
    /\ UNCHANGED <<dText, dCommon, dIdx, results>>

\* line 128
ReturnEmpty ==
    /\ dPc = "discovered"
    /\ dFiberCounts = <<>>
    /\ dPc' = "done"
    /\ UNCHANGED <<dText, dDescription, dFiberCounts, dCommon, dIdx, results>>

\* lines 131-134
ExtractCommon ==
    /\ dPc = "discovered"
    /\ dFiberCounts # <<>>
    /\ dCommon' = CommonValues(dText)
    /\ dPc' = "loop"
    /\ UNCHANGED <<dText, dDescription, dFiberCounts, dIdx, results>>

\* lines 136-167: one iteration of the loop over fiber_counts
EmitRecord ==
    /\ dPc = "loop"
    /\ dIdx <= Len(dFiberCounts)
    /\ results' = Append(results, MakeRecord(DocName, dText, dDescription,
                                             dFiberCounts, dFiberCounts[dIdx], dCommon))
    /\ dIdx' = dIdx + 1
    /\ UNCHANGED <<dText, dDescription, dFiberCounts, dCommon, dPc>>

\* line 168
ReturnResultsEarly ==
    /\ dPc = "loop"
    /\ dIdx >= Len(dFiberCounts)
    /\ dPc' = "done"
    /\ UNCHANGED <<dText, dDescription, dFiberCounts, dCommon, dIdx, results>>
ReturnResults ==
    /\ dPc = "loop"
    /\ dIdx > Len(dFiberCounts)
    /\ dPc' = "done"
    /\ UNCHANGED <<dText, dDescription, dFiberCounts, dCommon, dIdx, results>>

NextDoc ==
    \/ (DiscoverVariants /\ UNCHANGED <<tableVars, batchVars>>)
    \/ (ReturnEmpty /\ UNCHANGED <<tableVars, batchVars>>)
    \/ (ExtractCommon /\ UNCHANGED <<tableVars, batchVars>>)
    \/ (EmitRecord /\ UNCHANGED <<tableVars, batchVars>>)
    \/ (ReturnResults /\ UNCHANGED <<tableVars, batchVars>>)

SpecDoc == InitDoc /\ [][NextDoc]_vars

-----------------------------------------------------------------------------
(* parse_datasheets *)

\* the call of line 176 raises: re.search (line 7) raises TypeError when the
\* content is not a str
Raises(content) == content = None

\* lines 177-180: the parsed records with their identifiers, in order
NumberedMutant(parsed_cables, id) ==
    [i \in 1..Len(parsed_cables) |-> [parsed_cables[i] EXCEPT !.cableID = id]]
Numbered(parsed_cables, id) ==
    [i \in 1..Len(parsed_cables) |-> [parsed_cables[i] EXCEPT !.cableID = id + i - 1]]

\* lines 181-182: current_id after the except clause, which only prints
IdAfterExceptionMutant(id) == id + 1
IdAfterException(id) == id

\* the orders in which the token set of a content can be iterated
OrdersOf(content) == SetOrders(TokenSet(GetCableDescription(content), content))

\* lines 177-180: <<all_cables, current_id>> after the records of one document
\* have been numbered and collected
Collected(before, parsed_cables) ==
    <<before[1] \o Numbered(parsed_cables, before[2]), before[2] + Len(parsed_cables)>>

\* lines 174-182: <<all_cables, current_id>> after one iteration of the loop
OneFile(before, item, order) ==
    IF Raises(item.content)
    THEN <<before[1], IdAfterException(before[2])>>
    ELSE CHOOSE after \in
             {Collected(all, parsed_cables) :
                  all \in {before},
                  parsed_cables \in
                      {ParseSingleDatasheet(item.filename, item.content, order)}} : TRUE

\* parse_datasheets as a function of the items of the mapping, in order, and
\* of the iteration order taken for each of them: <<all_cables, current_id>>
RECURSIVE ParseDatasheets(_, _)
ParseDatasheets(items, orders) ==
    IF Len(items) = 0 THEN <<<<>>, 0>>
    ELSE OneFile(ParseDatasheets(SubSeq(items, 1, Len(items) - 1),
                                 SubSeq(orders, 1, Len(items) - 1)),
                 items[Len(items)], orders[Len(items)])

-----------------------------------------------------------------------------
(* Inputs of the batch parser *)

FileNames == <<"a.pdf", "b.pdf", "c.pdf", "d.pdf", "e.pdf">>

\* "024F 24F"
BlockTie == <<"0", "2", "4", "F", " ", "2", "4", "F">>

\* a content that is no str, a text without variants, a text with one
\* variant and a text with the two variants 024 and 24
BatchContents == {None, BlockPlain, BlockBody, BlockTie}

\* the mappings of at most n items: the keys are distinct, the items keep
\* their insertion order
Mappings(n) ==
    {[i \in 1..Len(cs) |-> [filename |-> <<FileNames[i]>>, content |-> cs[i]]] :
        cs \in UNION {[1..k -> BatchContents] : k \in 0..n}}

-----------------------------------------------------------------------------
(* Spec: parse_datasheets over a mapping, run MaxRuns times on the same     *)
(* mapping, each run in a process of its own                               *)

Init ==
    /\ files \in Mappings(MaxFiles)
    /\ fIdx = 1
    /\ all_cables = <<>>
    /\ current_id = 0
    /\ taken = <<>>
    /\ bPc = "loop"
    /\ run = 1
    /\ previous = <<>>
    \* the variables of the other calls stay at rest
    /\ tText = <<>> /\ tFcs = <<>> /\ tFc = <<>> /\ tParam = <<>>
    /\ header_index = -1 /\ col_map = <<>> /\ tPc = "idle" /\ tResult = None
    /\ dText = <<>> /\ dDescription = <<>> /\ dFiberCounts = <<>>
    /\ dCommon = <<>> /\ dIdx = 1 /\ results = <<>> /\ dPc = "idle"

\* lines 174-180: one iteration whose call of _parse_single_datasheet returns
ParseFile ==
    /\ bPc = "loop"
    /\ fIdx <= Len(files)
    /\ ~Raises(files[fIdx].content)
    /\ \E order \in OrdersOf(files[fIdx].content) :
           \* line 176: parsed_cables is the list the call returns
           \E parsed_cables \in
                   {ParseSingleDatasheet(files[fIdx].filename, files[fIdx].content, order)} :
               /\ all_cables' = all_cables \o Numbered(parsed_cables, current_id)
               /\ current_id' = current_id + Len(parsed_cables)
               /\ taken' = Append(taken, order)
    /\ fIdx' = fIdx + 1
    /\ UNCHANGED <<files, bPc, run, previous>>

\* lines 174-176 and 181-182: one iteration whose call raises
SkipFile ==
    /\ bPc = "loop"
    /\ fIdx <= Len(files)
    /\ Raises(files[fIdx].content)
    /\ current_id' = IdAfterException(current_id)
    /\ taken' = Append(taken, <<>>)
    /\ fIdx' = fIdx + 1
    /\ UNCHANGED <<files, all_cables, bPc, run, previous>>

\* line 183
ReturnAll ==
    /\ bPc = "loop"
    /\ fIdx > Len(files)
    /\ bPc' = "done"
    /\ UNCHANGED <<files, fIdx, all_cables, current_id, taken, run, previous>>

\* parse_datasheets is called again on the same mapping: lines 172-173
Rerun ==
    /\ bPc = "done"
    /\ run < MaxRuns
    /\ previous' = all_cables
    /\ all_cables' = <<>>
    /\ current_id' = 0
    /\ taken' = <<>>
    /\ fIdx' = 1
    /\ run' = run + 1
    /\ bPc' = "loop"
    /\ UNCHANGED files

Next ==
    \/ (ParseFile /\ UNCHANGED <<tableVars, docVars>>)
    \/ (SkipFile /\ UNCHANGED <<tableVars, docVars>>)
    \/ (ReturnAll /\ UNCHANGED <<tableVars, docVars>>)
    \/ (Rerun /\ UNCHANGED <<tableVars, docVars>>)

Spec == Init /\ [][Next]_vars

-----------------------------------------------------------------------------
(* Properties of the table locator (SpecTable) *)

\* the lines of the text of the call
tLines == SplitOn(tText, "\n")
\* a line after the header contains the parameter name
HasMatchingLine ==
    /\ header_index # -1
    /\ \E i \in (header_index + 2)..Len(tLines) : LineMatches(tLines[i], tParam)
\* the first line after the header that contains the parameter name
FirstMatchingLine ==
    tLines[CHOOSE i \in (header_index + 2)..Len(tLines) :
               /\ LineMatches(tLines[i], tParam)
               /\ \A k \in (header_index + 2)..(i - 1) : ~LineMatches(tLines[k], tParam)]
\* its cells
FirstCells == SplitCells(Strip(FirstMatchingLine))
\* the parameter label lies in the first cell of that line
LabelInFirstCell == ContainsCI(FirstCells[1], tParam)
\* the cell the offset rule resolves to: the mapped column, or the one to its left
ResolvedIndex == IF LabelInFirstCell THEN col_map[tFc] ELSE col_map[tFc] - 1
\* the call has returned after finding a header that maps the target variant,
\* and a line after the header contains the parameter name
LookupResolved ==
    /\ tPc = "done"
    /\ HasMatchingLine
    /\ tFc \in DOMAIN col_map

\* C6 as stated: when the header maps the target variant to column c and cell
\* c of the first matching line exists and is not empty, the lookup returns
\* cell c (cleaned) if the label is in the first cell and cell c-1 otherwise.
C6_CellAtMappedColumn ==
    (LookupResolved /\ col_map[tFc] < Len(FirstCells) /\ FirstCells[col_map[tFc] + 1] # <<>>)
        => IF LabelInFirstCell
           THEN tResult = CleanCell(FirstCells[col_map[tFc] + 1])
           ELSE /\ col_map[tFc] >= 1
                /\ tResult = CleanCell(FirstCells[col_map[tFc]])

\* C6 amended: when the cell the offset rule resolves to (cell c if the label
\* is in the first cell, cell c-1 otherwise) exists and is not empty once '$',
\* '"' and surrounding blanks are removed, the lookup returns that cleaned
\* cell; header [Fibre Count, 24F, 48F] with row [Tensile Strength, 150 N,
\* 200 N] and target 48 gives "200 N".
C6_ResolvedCell ==
    /\ (/\ LookupResolved
        /\ 0 <= ResolvedIndex
        /\ ResolvedIndex < Len(FirstCells)
        /\ CleanCell(FirstCells[ResolvedIndex + 1]) # <<>>)
           => tResult = CleanCell(FirstCells[ResolvedIndex + 1])
    /\ (/\ tPc = "done"
        /\ tText = HeaderA \o <<"\n">> \o RowA
        /\ tFcs = <<Token("24"), Token("48")>>
        /\ tFc = Token("48")
        /\ tParam = TensileStrength)
           => tResult = <<"2", "0", "0", " ", "N">>

\* a lookup whose label is not in the first cell returned the cell left of the
\* mapped column
C6_Witness ==
    /\ LookupResolved
    /\ ~LabelInFirstCell
    /\ 0 <= ResolvedIndex
    /\ ResolvedIndex < Len(FirstCells)
    /\ CleanCell(FirstCells[ResolvedIndex + 1]) # <<>>
    /\ tResult = CleanCell(FirstCells[ResolvedIndex + 1])

\* the cells of the header line found
HeaderCells == SplitCells(Strip(tLines[header_index + 1]))

\* C9: every known variant whose own label "<v>F" is a cell of the header
\* line is mapped to the index of that cell, also when its label is a suffix
\* of another variant's label.
C9_OwnLabelColumn ==
    (tPc \in {"rows", "done"} /\ header_index # -1)
        => \A k \in 1..Len(tFcs) : \A idx \in 0..(Len(HeaderCells) - 1) :
               Strip(HeaderCells[idx + 1]) = Label(tFcs[k])
                   => tFcs[k] \in DOMAIN col_map /\ col_map[tFcs[k]] = idx

\* C10: the result is always taken from the first line after the header that
\* contains the parameter name, later lines are never consulted, and for a
\* target variant without a mapped column it is the second cell of that line.
C10_FirstMatchingLineOnly ==
    (tPc = "done" /\ HasMatchingLine)
        => /\ tResult = LineValue(FirstMatchingLine, col_map, tFc, tParam)
           /\ (tFc \notin DOMAIN col_map /\ Len(FirstCells) > 1)
                  => tResult = CleanCell(FirstCells[2])

-----------------------------------------------------------------------------
(* Properties of the datasheet parser (SpecDoc) *)

\* the numbers the discovered tokens denote, in order
VariantNumbers == [i \in 1..Len(dFiberCounts) |-> ToInt(dFiberCounts[i])]

\* C3: a document whose discovery yields k variants returns exactly k
\* records, one per variant in the discovered order, with pairwise distinct
\* fiberCount tokens and the same document-wide fields on all of them; for
\* k = 0 it returns the empty sequence.
C3_OneRecordPerVariant ==
    dPc = "done" =>
        /\ Len(results) = Len(dFiberCounts)
        /\ \A i \in 1..Len(results) : results[i].fiberCount = Label(dFiberCounts[i])
        /\ \A i, j \in 1..Len(results) : i # j => results[i].fiberCount # results[j].fiberCount
        /\ \A i, j \in 1..Len(results) :
               /\ results[i].tube = results[j].tube
               /\ results[i].tubeColorCoding = results[j].tubeColorCoding
               /\ results[i].fiberType = results[j].fiberType
               /\ results[i].nescCondition = results[j].nescCondition
               /\ results[i].datasheetURL = results[j].datasheetURL

\* a document with several variants has been parsed to the end
C3_Witness ==
    /\ dPc = "done"
    /\ Len(dFiberCounts) >= 2
    /\ Len(results) = Len(dFiberCounts)

\* C4: the discovered variants are in strictly ascending numeric order, so no
\* two tokens denote the same number.
C4_StrictlyAscending ==
    dPc # "start" =>
        \A i, j \in 1..Len(dFiberCounts) : i < j => VariantNumbers[i] < VariantNumbers[j]

\* the str fields of a record
StrFields ==
    {"cableDescription", "fiberCount", "typeofCable", "span", "tube", "tubeColorCoding",
     "fiberType", "diameter", "tensile", "nescCondition", "crush", "blowingLength",
     "datasheetURL", "isActive"}

\* C7: every field of every record holds a str that is not empty (a field
\* that found nothing holds "N/A"), cableID holds an integer, and span and
\* blowingLength hold "N/A".
C7_FullyPopulated ==
    \A i \in 1..Len(results) :
        /\ DOMAIN results[i] = StrFields \cup {"cableID"}
        /\ results[i].cableID \in Int
        /\ \A f \in StrFields : results[i][f] # None /\ results[i][f] # <<>>
        /\ results[i].span = NA
        /\ results[i].blowingLength = NA

\* the first chunk of the description that has a letter, one past the end
\* when there is none
FirstLetter == Min({i \in 1..Len(dDescription) : HasLetter(dDescription[i])}
                       \cup {Len(dDescription) + 1})
\* s[i..j] is a whole group of digits of s
DigitGroup(s, i, j) ==
    /\ i <= j
    /\ \A k \in i..j : IsDigit(s[k])
    /\ ~IsDigit(At(s, i - 1))
    /\ ~IsDigit(At(s, j + 1))
\* the digit groups of the description before its first letter
TitleSignal ==
    {SubSeq(dDescription, ij[1], ij[2]) :
        ij \in {p \in (1..Len(dDescription)) \X (1..Len(dDescription)) :
                   p[2] < FirstLetter /\ DigitGroup(dDescription, p[1], p[2])}}
\* the digit groups of the text that an "F" follows
SuffixSignal ==
    {SubSeq(dText, ij[1], ij[2]) :
        ij \in {p \in (1..Len(dText)) \X (1..Len(dText)) :
                   DigitGroup(dText, p[1], p[2]) /\ At(dText, p[2] + 1) = "F"}}

\* C8: the discovered variants are exactly the digit groups of the
\* description line before its first letter together with the digit groups
\* of every "<digits>F" of the text; the title "24/48F Indoor LSZH Cable" with
\* "96F" in the body gives 24, 48, 96.
C8_UnionOfSignals ==
    /\ dPc # "start" =>
           {dFiberCounts[i] : i \in 1..Len(dFiberCounts)} = TitleSignal \cup SuffixSignal
    /\ (dPc # "start" /\ dText = BlockTitle \o <<"\n">> \o BlockBody) =>
           dFiberCounts = <<<<"2", "4">>, <<"4", "8">>, <<"9", "6">>>>

\* discovery has run on a text whose title gives a variant the suffixes do
\* not and whose suffixes give one the title does not
C8_Witness ==
    /\ dPc = "done"
    /\ TitleSignal \ SuffixSignal # {}
    /\ SuffixSignal \ TitleSignal # {}
    /\ Len(results) = 3

-----------------------------------------------------------------------------
(* Properties of the batch parser (Spec) *)

\* C1: the record at result position i (zero-based) carries cableID i,
\* whatever documents raise or yield nothing.
C1_SequentialIds ==
    \A i \in 1..Len(all_cables) : all_cables[i].cableID = i - 1

\* a batch with a document that raises and a document without variants has
\* returned several records
C1_Witness ==
    /\ bPc = "done"
    /\ Len(all_cables) >= 2
    /\ \E i \in 1..Len(files) : Raises(files[i].content)
    /\ \E i \in 1..Len(files) : ~Raises(files[i].content) /\ taken[i] = <<>>

\* the positions of the documents that do not raise, in order
Kept == Ascending({i \in 1..Len(files) : ~Raises(files[i].content)})

\* C2: the records returned for a batch are exactly the records, in order,
\* fields and identifiers, of the batch without its raising documents.
C2_FailureIsolation ==
    bPc = "done" =>
        all_cables = ParseDatasheets([n \in 1..Len(Kept) |-> files[Kept[n]]],
                                     [n \in 1..Len(Kept) |-> taken[Kept[n]]])[1]

\* a batch has returned records of a document that follows a raising one
C2_Witness ==
    /\ bPc = "done"
    /\ \E i, j \in 1..Len(files) :
           /\ i < j
           /\ Raises(files[i].content)
           /\ \E n \in 1..Len(all_cables) : all_cables[n].datasheetURL = files[j].filename

\* C5: a second run of parse_datasheets on the same mapping returns the same
\* records in the same order with the same identifiers.
C5_RerunIdentical ==
    (bPc = "done" /\ run >= 2) => all_cables = previous

====
